---- MODULE Spec2Model ----
(***************************************************************************)
(* capt_archive_converter: the conversion worker, the two orchestrators    *)
(* (ArchiveArchiveConverter for CBR<->CBZ, PdfArchiveConverter for         *)
(* PDF<->CBZ), the archive helpers and the per-file progress callback.     *)
(*                                                                         *)
(* A path is a record [stem, suffix]; a file is a record [kind, pages]:    *)
(* kind is what the bytes are (a ZIP, a RAR, a PDF, anything else, or no   *)
(* file at all) and pages is the set of image entries (pages) it holds.    *)
(* Error messages are modelled by a tag naming the message's fixed text.   *)
(***************************************************************************)
EXTENDS Integers, Sequences, FiniteSets, TLC

\* ---------------------------------------------------------------- bounds
MaxBatch == 2
MaxEntries == 1
MaxCalls == 4

Stems == {"a"}
Suffixes == {".cbr", ".cbz", ".pdf"}
Paths == [stem : Stems, suffix : Suffixes]
\* The path "/" (as "" or "."): a path whose name is empty.
Root == [stem |-> "", suffix |-> ""]
InputPaths == Paths \cup {Root}
Tokens == {"cbz", "cbr", "pdf", "CBZ", ""}

NoFile == [kind |-> "none", pages |-> {}]
Junk == [kind |-> "junk", pages |-> {}]
Archive(k, ps) == [kind |-> k, pages |-> ps]

\* What can lie under a path before the run.  The bytes of a PDF under a
\* suffix other than .pdf, and the bytes of an archive under .pdf, are read
\* by no code path as anything but "not the expected format": Junk stands
\* for them.
ContentsOf(p) ==
  IF p.suffix = ".pdf"
  THEN {NoFile, Junk} \cup {Archive("pdf", 1..n) : n \in 0..MaxEntries}
  ELSE {NoFile, Junk} \cup {Archive(k, 1..n) : k \in {"zip", "rar"}, n \in 0..MaxEntries}

BatchesOf(n) == [1..n -> InputPaths]
Batches == UNION {BatchesOf(n) : n \in 0..MaxBatch}

\* ------------------------------------------------------- pure functions

\* str.lower() on the target tokens and suffixes of the model.
Lower(s) ==
  CASE s = "CBZ" -> "cbz"
    [] s = "CBR" -> "cbr"
    [] s = "PDF" -> "pdf"
    [] s = ".CBZ" -> ".cbz"
    [] s = ".CBR" -> ".cbr"
    [] s = ".PDF" -> ".pdf"
    [] OTHER -> s

\* f'.{token}'
DotSuffix(tok) ==
  CASE tok = "cbz" -> ".cbz"
    [] tok = "cbr" -> ".cbr"
    [] tok = "pdf" -> ".pdf"
    [] tok = "CBZ" -> ".CBZ"
    [] tok = "CBR" -> ".CBR"
    [] tok = "PDF" -> ".PDF"
    [] OTHER -> "."

\* Path.with_suffix raises ValueError for a path with an empty name and for
\* the suffix "." (an empty token).
WithSuffixRaises(p, tok) == p.stem = "" \/ DotSuffix(tok) = "."

WithSuffix(p, tok) == [p EXCEPT !.suffix = DotSuffix(tok)]

Exists(fsx, p) == p \in DOMAIN fsx /\ fsx[p].kind # "none"

FileAt(fsx, p) == IF p \in DOMAIN fsx THEN fsx[p] ELSE NoFile

\* zipfile.is_zipfile and rarfile.is_rarfile: a file can pass both (an
\* archive of one kind followed by the other).
IsZip(file) == file.kind \in {"zip", "both"}
IsRar(file) == file.kind \in {"rar", "both"}

\* A detection that looks at the content before the suffix, RAR first.
C17_Mutant_detect_archive_format(fsx, p) ==
  IF IsRar(FileAt(fsx, p)) THEN "CBR"
  ELSE IF IsZip(FileAt(fsx, p)) THEN "CBZ"
  ELSE IF Lower(p.suffix) = ".pdf" THEN "PDF"
  ELSE "None"

\* ArchiveConverter.detect_archive_format: the suffix .pdf wins, then a
\* valid ZIP, then a valid RAR, else None; an exception of a check is
\* caught and gives None.
detect_archive_format(fsx, p) ==
  IF Lower(p.suffix) = ".pdf" THEN "PDF"
  ELSE IF IsZip(FileAt(fsx, p)) THEN "CBZ"
  ELSE IF IsRar(FileAt(fsx, p)) THEN "CBR"
  ELSE "None"

\* int((current / total) * 100) on IEEE doubles: the quotient is rounded
\* before it is multiplied, so a few pairs come out one below the exact
\* floor (29/100*100 is 28.999999999999996).
FloatShort == {<<29, 100>>, <<57, 100>>, <<58, 100>>,
               <<23, 5>>, <<41, 5>>, <<46, 5>>, <<51, 5>>, <<82, 5>>, <<87, 5>>, <<92, 5>>, <<97, 5>>}

\* int() truncates towards zero.
IntPercent(current, total) ==
  IF current < 0 THEN 0 - ((100 * (0 - current)) \div total)
  ELSE IF <<current, total>> \in FloatShort
  THEN ((100 * current) \div total) - 1
  ELSE (100 * current) \div total

Min(a, b) == IF a < b THEN a ELSE b
Max(a, b) == IF a > b THEN a ELSE b

\* The per-file callback without the cap of the files before the last.
C7_Mutant_PerFilePercent(current, total, isLast) ==
  IF total > 0 THEN Min(100, Max(0, IntPercent(current, total))) ELSE 0

\* create_per_file_progress_callback: the percentage the callback forwards
\* to the sink for a raw (current, total).
PerFilePercent(current, total, isLast) ==
  LET percent == IF total > 0 THEN Min(100, Max(0, IntPercent(current, total))) ELSE 0
  IN IF ~isLast /\ percent = 100 THEN 99 ELSE percent


\* ---------------------------------------------------------------- state
VARIABLES
  files,          \* the batch: a sequence of input paths
  target,         \* the target-format token
  deleteOriginal, \* the delete-original flag
  fs0,            \* the file system before the run
  fs,             \* the file system: path -> file
  orch,           \* the orchestrator handling the batch ("none" before selection)
  pc,             \* where the run is
  idx,            \* index (1-based) of the job that is running or next to start
  conv,           \* converted_path of the running job
  srcFmt,         \* source_format the gate of the running job detected
  tmpDirs,        \* number of temporary directories that exist
  tmpFiles,       \* pages lying in the running job's temporary directory
  results,        \* convert_batch's results list
  sunk,           \* the calls on the per-file callbacks with the percentage each forwarded
  signals,        \* the signals the worker emitted, in order
  lastPct,        \* ConversionWorker.last_progress_percent
  batchRaised,    \* an exception left convert_batch
  jlog,           \* history: one record per started job
  deletions       \* history: one record per file removed from the file system

vars == <<files, target, deleteOriginal, fs0, fs, orch, pc, idx, conv, srcFmt,
          tmpDirs, tmpFiles, results, sunk, signals, lastPct, batchRaised, jlog, deletions>>

inputs == <<files, target, deleteOriginal, fs0>>

NoPath == [stem |-> "-", suffix |-> ""]

Sig(k, pct, tag, res) == [sig |-> k, pct |-> pct, tag |-> tag, res |-> res]
ProgressSig(pct) == Sig("progress", pct, "", <<>>)
StatusSig(tag) == Sig("status", -1, tag, <<>>)
ResultSig(res) == Sig("result", -1, "", res)
FinishedSig == Sig("finished", -1, "", <<>>)

\* A call on the per-file progress callback, and a call on the status callback.
P(current, total) == [op |-> "p", cur |-> current, tot |-> total, tag |-> ""]
S(tag) == [op |-> "s", cur |-> 0, tot |-> 0, tag |-> tag]

\* A progress call made by an extraction loop or by a packer (the calls
\* the pipeline makes itself carry no phase).
InPhase(ph, current, total) == [op |-> "p", cur |-> current, tot |-> total, tag |-> ph]

Result(orig, cv, ok, err) == [originalPath |-> orig, convertedPath |-> cv, success |-> ok, errorMessage |-> err]

\* What is recorded of a job: the format its gate detected, whether it got
\* past the gate and past the pipeline's re-check, the temporary
\* directories it created, whether its packer returned, what the existence
\* check saw, whether it wrote a file, and the temporary directories that
\* existed at the existence check and when convert_file returned, whether
\* its extraction completed, and what the probe of the rar tool found.
NewJob(src) == [src |-> src, gate |-> FALSE, rechecked |-> FALSE, tmpMade |-> 0,
                packReturned |-> FALSE, checked |-> FALSE, existedAtCheck |-> FALSE,
                wrote |-> FALSE, tmpAtCheck |-> 0, tmpAtReturn |-> 0, returned |-> FALSE,
                extracted |-> FALSE, rarTool |-> "none"]

\* A throttle without the pass for 100.
C16_Mutant_EmitThrottled(percent, last) == (percent - last >= 1) \/ (last - percent >= 1)

\* ConversionWorker.emit_progress: forward (current, total) as a progress
\* signal when the integer percentage moved by at least 1 or is 100.
\* The state is [signals, last].
EmitThrottled(percent, last) == (percent - last >= 1) \/ (last - percent >= 1) \/ percent = 100

emit_progress(w, current, total) ==
  IF total > 0
  THEN LET percent == IntPercent(current, total)
       IN IF EmitThrottled(percent, w.last)
          THEN [signals |-> Append(w.signals, ProgressSig(current)), last |-> percent]
          ELSE w
  ELSE [w EXCEPT !.signals = Append(@, ProgressSig(current))]

\* One call of the running job on its callbacks.  st is [sunk, signals, last].
\* The per-file callback forwards (percent, 100) to the orchestrator's
\* progress_callback, the worker's emit_progress; a status message reaches
\* the worker's status signal.
Call(st, c, j, isLast) ==
  IF c.op = "p"
  THEN LET pct == PerFilePercent(c.cur, c.tot, isLast)
           w == emit_progress([signals |-> st.signals, last |-> st.last], pct, 100)
       IN [sunk |-> Append(st.sunk, [job |-> j, cur |-> c.cur, tot |-> c.tot, pct |-> pct, ph |-> c.tag]),
           signals |-> w.signals, last |-> w.last]
  ELSE [st EXCEPT !.signals = Append(@, StatusSig(c.tag))]

RECURSIVE Calls(_, _, _, _)
Calls(st, cs, j, isLast) ==
  IF cs = <<>> THEN st
  ELSE Calls(Call(st, Head(cs), j, isLast), Tail(cs), j, isLast)

\* ConversionWorker.run 43-48: the PDF orchestrator when the target is
\* "pdf" or some input path ends in .pdf.
SelectConverter(tok, fls) ==
  IF tok = "pdf" \/ \E i \in 1..Len(fls) : Lower(fls[i].suffix) = ".pdf" THEN "pdf" ELSE "cb"

\* converted_path: the container orchestrator keeps the token's case, the
\* PDF orchestrator lowers it.
ConvertedPath(o, p, tok) == IF o = "cb" THEN WithSuffix(p, tok) ELSE WithSuffix(p, Lower(tok))

\* A path that is neither an input of the batch nor the converted path of
\* one is never read or written: such paths hold no file.
Touched(fls, tok) ==
  {fls[i] : i \in 1..Len(fls)}
    \cup {ConvertedPath(SelectConverter(tok, fls), fls[i], tok) : i \in 1..Len(fls)}

Init ==
  /\ files \in Batches
  /\ target \in Tokens
  /\ deleteOriginal \in BOOLEAN
  /\ fs0 \in {f \in [Paths -> UNION {ContentsOf(p) : p \in Paths}] :
                \A p \in Paths : f[p] \in (IF p \in Touched(files, target) THEN ContentsOf(p) ELSE {NoFile})}
  /\ fs = fs0
  /\ orch = "none"
  /\ pc = "setup"
  /\ idx = 1
  /\ conv = NoPath
  /\ srcFmt = "None"
  /\ tmpDirs = 0
  /\ tmpFiles = {}
  /\ results = <<>>
  /\ sunk = <<>>
  /\ signals = <<>>
  /\ lastPct = -1
  /\ batchRaised = FALSE
  /\ jlog = <<>>
  /\ deletions = <<>>


\* ------------------------------------------------------------- the jobs
N == Len(files)
IsLast == idx = N
St == [sunk |-> sunk, signals |-> signals, last |-> lastPct]
Said(cs) == Calls(St, cs, idx, IsLast)

\* The sequence <<f(1), ..., f(n)>> of progress calls.
Range(n, f(_)) == [i \in 1..n |-> f(i)]

\* The k smallest pages of ps (the order a directory walk of the sorted
\* page files yields).
FirstPages(ps, k) == {x \in ps : Cardinality({y \in ps : y < x}) < k}

\* convert_file's supported-pair test, container orchestrator.
GateCb(tok, src) ==
  IF (tok = "cbz" /\ src = "CBR") \/ (tok = "cbr" /\ src = "CBZ") THEN "pass" ELSE "unsupported"

\* convert_file's supported-pair test, PDF orchestrator: source_format.upper()
\* is evaluated (and raises AttributeError on None) only when the token test
\* before it in the same conjunction holds.
GatePdf(tok, src) ==
  IF Lower(tok) = "cbz"
  THEN IF src = "None" THEN "attr" ELSE IF src = "PDF" THEN "pass" ELSE "unsupported"
  ELSE IF Lower(tok) = "pdf"
  THEN IF src = "None" THEN "attr" ELSE IF src = "CBZ" THEN "pass" ELSE "unsupported"
  ELSE "unsupported"

Gate(o, tok, src) == IF o = "cb" THEN GateCb(tok, src) ELSE GatePdf(tok, src)

\* The format the pipeline requires at its re-check.
Expected(o, tok, src) ==
  IF o = "cb" THEN src ELSE IF Lower(tok) = "cbz" THEN "PDF" ELSE "CBZ"

\* The job ends: convert_file returns res, convert_batch appends it.
EndJob(res, st, job, tmpAfter) ==
  /\ results' = Append(results, res)
  /\ jlog' = [jlog EXCEPT ![idx] = [job EXCEPT !.returned = TRUE, !.tmpAtReturn = tmpAfter]]
  /\ sunk' = st.sunk
  /\ signals' = st.signals
  /\ lastPct' = st.last
  /\ idx' = idx + 1
  /\ pc' = "batch"
  /\ conv' = NoPath
  /\ srcFmt' = "None"
  /\ tmpFiles' = {}

\* convert_file up to the gate (lines 99-111 / 89-106).
JobStart ==
  /\ pc = "batch"
  /\ idx <= N
  /\ LET p == files[idx]
         src == detect_archive_format(fs, p)
         cv == ConvertedPath(orch, p, target)
         g == Gate(orch, target, src)
     IN IF WithSuffixRaises(p, target)
        THEN \* ValueError before the try block: it leaves convert_file and convert_batch
             /\ pc' = "raised"
             /\ batchRaised' = TRUE
             /\ UNCHANGED <<fs, idx, conv, srcFmt, tmpDirs, tmpFiles, results, sunk,
                            signals, lastPct, jlog, deletions>>
        ELSE IF g = "pass"
        THEN LET st == Said(<<S(IF orch = "cb" THEN "Processing" ELSE "InitializingPdf")>>)
             IN /\ pc' = "pipeline"
                /\ conv' = cv
                /\ srcFmt' = src
                /\ jlog' = Append(jlog, [NewJob(src) EXCEPT !.gate = TRUE])
                /\ sunk' = st.sunk
                /\ signals' = st.signals
                /\ lastPct' = st.last
                /\ UNCHANGED <<fs, idx, tmpDirs, tmpFiles, results, batchRaised, deletions>>
        ELSE /\ jlog' = Append(jlog, [NewJob(src) EXCEPT !.returned = TRUE, !.tmpAtReturn = tmpDirs])
             /\ results' = Append(results,
                   Result(p, cv, FALSE, IF g = "attr" THEN "NoneTypeHasNoUpper" ELSE "Unsupported"))
             /\ idx' = idx + 1
             /\ UNCHANGED <<fs, pc, conv, srcFmt, tmpDirs, tmpFiles, sunk, signals, lastPct,
                            batchRaised, deletions>>
  /\ UNCHANGED <<inputs, orch>>

\* The pipeline's entry: the source re-check, then the temporary directory
\* (convert_archive 142-157, convert_pdf_to_cbz 136-154, convert_cbz_to_pdf 201-214).
PipelineEnterCalls(o, tok) ==
  IF o = "cb" THEN <<S("Extracting"), P(10, 100)>>
  ELSE IF Lower(tok) = "cbz" THEN <<S("Processing"), P(10, 100), S("ExtractingPdfPages")>>
  ELSE <<S("Processing")>>

\* A pipeline that only looks whether the source is still there.
C24_Mutant_RecheckFails(fsx, p, exp) == ~Exists(fsx, p)

\* The pipeline's re-check (142-146 / 136-140 / 201-205) refuses the source.
RecheckFails(fsx, p, exp) == ~Exists(fsx, p) \/ detect_archive_format(fsx, p) # exp

\* The text of the error the re-check raises: "Source <fmt> file not
\* found: ..." or "File is not a valid <fmt> ...".
RecheckError(fsx, p, exp) ==
  (IF ~Exists(fsx, p) THEN "SourceNotFound:" ELSE "NotValidSource:") \o exp

PipelineEnter ==
  /\ pc = "pipeline"
  /\ LET p == files[idx]
         exp == Expected(orch, target, srcFmt)
     IN IF RecheckFails(fs, p, exp)
        THEN /\ EndJob(Result(p, conv, FALSE, RecheckError(fs, p, exp)), St, jlog[idx], tmpDirs)
             /\ UNCHANGED <<fs, tmpDirs, deletions>>
        ELSE LET st == Said(PipelineEnterCalls(orch, target))
             IN /\ pc' = "extract"
                /\ tmpDirs' = tmpDirs + 1
                /\ tmpFiles' = {}
                /\ jlog' = [jlog EXCEPT ![idx].tmpMade = @ + 1, ![idx].rechecked = TRUE]
                /\ sunk' = st.sunk
                /\ signals' = st.signals
                /\ lastPct' = st.last
                /\ UNCHANGED <<fs, idx, conv, srcFmt, results, deletions>>
  /\ UNCHANGED <<inputs, orch, batchRaised>>


\* An exception inside the with-block whose temporary directory outlives the pipeline.
C6_Mutant_RaiseInTmp(err, st, job) ==
  /\ tmpDirs' = tmpDirs
  /\ EndJob(Result(files[idx], conv, FALSE, err), st, job, tmpDirs)

\* An exception inside the with-block of the pipeline: the temporary
\* directory is removed on the way out, the pipeline wraps the error and
\* convert_file's except clause turns it into the job's result.
RaiseInTmp(err, st, job) ==
  /\ tmpDirs' = tmpDirs - 1
  /\ EndJob(Result(files[idx], conv, FALSE, err), st, job, tmpDirs - 1)

\* The same after the packer opened its output.
RaiseWrote(err, st) ==
  /\ tmpDirs' = tmpDirs - 1
  /\ EndJob(Result(files[idx], conv, FALSE, err), st, [jlog[idx] EXCEPT !.wrote = TRUE], tmpDirs - 1)

\* Progress calls of the extraction / rasterization loop after f entries.
ExtractCalls(o, tok, f, n) ==
  IF o = "cb" THEN Range(f, LAMBDA i : InPhase("extract", i, n))
  ELSE IF Lower(tok) = "cbz"
  THEN <<P(30, 100)>> \o Range(f, LAMBDA i : InPhase("extract", 10 + ((70 * i) \div n), 100))
  ELSE <<S("ExtractingImages")>> \o Range(f, LAMBDA i : InPhase("extract", 10 + ((70 * i) \div n), 100))

\* What follows the loop when it completed.
AfterExtractCalls(o, tok) ==
  IF o = "cb" THEN <<P(60, 100), S("ConvertingFormat")>>
  ELSE IF Lower(tok) = "cbz" THEN <<P(90, 100), S("PackingCbz")>>
  ELSE <<>>

\* An extraction that leaves out the last entry of the archive.
C20_Mutant_Extracted(file) == {e \in file.pages : e < Cardinality(file.pages)}

\* The files a completed extraction leaves in the temporary directory: one
\* per entry, under the entry's full name (extract(file_name, extract_path)
\* keeps the folders of the name).
Extracted(file) == file.pages

\* A convert_cbz_to_pdf without the check of total_images.
C15_Mutant_NoImagesFound(o, tok, n) == FALSE

\* convert_cbz_to_pdf 216-223: no entry of the archive has an image suffix.
NoImagesFound(o, tok, n) == o = "pdf" /\ Lower(tok) = "pdf" /\ n = 0

\* extract_rar_archive / extract_zip_archive (container orchestrator), the
\* page loop of convert_pdf_to_cbz, the image loop of convert_cbz_to_pdf.
\* f is the number of entries written before the step fails (f = n: none fails).
Extract ==
  /\ pc = "extract"
  /\ LET src == FileAt(fs, files[idx])
         n == Cardinality(src.pages)
     IN IF orch = "pdf" /\ Lower(target) = "cbz" /\ src.kind # "pdf"
        THEN \* fitz.open raises on what is no PDF
             /\ RaiseInTmp("PdfOpenFailed", St, jlog[idx])
             /\ UNCHANGED <<fs, deletions>>
        ELSE IF NoImagesFound(orch, target, n)
        THEN /\ RaiseInTmp("NoImages", St, jlog[idx])
             /\ UNCHANGED <<fs, deletions>>
        ELSE \E f \in 0..n :
               LET st == Said(ExtractCalls(orch, target, f, n))
               IN IF f < n
                  THEN /\ RaiseInTmp("ExtractFailed", st, jlog[idx])
                       /\ UNCHANGED <<fs, deletions>>
                  ELSE LET st2 == Calls(st, AfterExtractCalls(orch, target), idx, IsLast)
                       IN /\ pc' = "pack"
                          /\ tmpFiles' = Extracted(src)
                          /\ sunk' = st2.sunk
                          /\ signals' = st2.signals
                          /\ lastPct' = st2.last
                          /\ jlog' = [jlog EXCEPT ![idx].extracted = TRUE]
                          /\ UNCHANGED <<fs, idx, conv, srcFmt, tmpDirs, results, deletions>>
  /\ UNCHANGED <<inputs, orch, batchRaised>>

WriteFile(fsx, p, file) == [q \in DOMAIN fsx \cup {p} |-> IF q = p THEN file ELSE fsx[q]]

\* Which packer the job uses.
Packer(o, tok, src) ==
  IF o = "cb" THEN (IF src = "CBR" THEN "zip" ELSE "rar")
  ELSE IF Lower(tok) = "cbz" THEN "zip" ELSE "compose"

\* create_zip_archive's start_progress / end_progress at the two call sites.
ZipStart(o) == IF o = "cb" THEN 60 ELSE 90
ZipEnd(o) == IF o = "cb" THEN 90 ELSE 100

\* create_zip_archive's progress call after file i of n: the total it
\* passes is the number of files.
ZipCall(o, i, n) == InPhase("pack", ZipStart(o) + (((ZipEnd(o) - ZipStart(o)) * i) \div n), n)

\* Calls the pipeline makes after the packer returned.
AfterPackCalls(o, tok) ==
  IF o = "cb" THEN <<S("PackingInto"), S("CleaningUp"), P(100, 100)>>
  ELSE IF Lower(tok) = "cbz" THEN <<P(100, 100), S("CleaningUp")>>
  ELSE <<P(90, 100), S("CreatingPdf"), P(100, 100), S("CleaningUp")>>

\* The packer returned: the rest of the with-block runs, the temporary
\* directory is removed, the pipeline returns to convert_file.
PackReturned(fsNew, st, wrote, tool) ==
  LET st2 == Calls(st, AfterPackCalls(orch, target), idx, IsLast)
  IN /\ fs' = fsNew
     /\ tmpDirs' = tmpDirs - 1
     /\ tmpFiles' = {}
     /\ pc' = "check"
     /\ jlog' = [jlog EXCEPT ![idx].packReturned = TRUE, ![idx].wrote = wrote, ![idx].rarTool = tool]
     /\ sunk' = st2.sunk
     /\ signals' = st2.signals
     /\ lastPct' = st2.last
     /\ UNCHANGED <<idx, conv, srcFmt, results, deletions>>

\* create_zip_archive: w = -1 when the output cannot be opened, w < n when
\* writing file w+1 fails (the archive written so far stays), w = n: done.
PackZip ==
  /\ Packer(orch, target, srcFmt) = "zip"
  /\ LET n == Cardinality(tmpFiles)
     IN \E w \in (-1)..n :
          LET st == Said(Range(Max(w, 0), LAMBDA i : ZipCall(orch, i, n)))
          IN IF w = -1
             THEN /\ RaiseInTmp("ZipFailed", St, jlog[idx])
                  /\ UNCHANGED <<fs, deletions>>
             ELSE IF w < n
             THEN /\ RaiseWrote("ZipFailed", st)
                  /\ fs' = WriteFile(fs, conv, Archive("zip", FirstPages(tmpFiles, w)))
                  /\ UNCHANGED deletions
             ELSE /\ PackReturned(WriteFile(fs, conv, Archive("zip", tmpFiles)), st, TRUE, "none")

RarTools == {"missing", "error", "silent", "ok"}

\* A create_rar_archive that reports a missing tool as any other failure.
C14_Mutant_RarError(tool) == "RarFailed"

\* The text of the RuntimeError create_rar_archive raises: "RAR
\* command-line tool not found. ..." when the probe raises
\* FileNotFoundError, "RAR creation failed: ..." when rar exits non-zero.
RarError(tool) == IF tool = "missing" THEN "RarToolMissing" ELSE "RarFailed"

\* create_rar_archive: the probe of the rar tool, then rar a -r -ep1.  The
\* tool is external: it is not there, exits non-zero, exits zero without
\* an archive, or adds the files to the archive (updating a RAR that is
\* already there).
PackRar ==
  /\ Packer(orch, target, srcFmt) = "rar"
  /\ LET n == Cardinality(tmpFiles)
         old == FileAt(fs, conv)
     IN \E tool \in RarTools :
          IF tool = "missing"
          THEN /\ RaiseInTmp(RarError(tool), St, [jlog[idx] EXCEPT !.rarTool = "missing"])
               /\ UNCHANGED <<fs, deletions>>
          ELSE IF tool = "error"
          THEN /\ RaiseInTmp(RarError(tool), Said(<<InPhase("pack", ZipStart(orch) + 10, n)>>),
                             [jlog[idx] EXCEPT !.rarTool = "found"])
               /\ UNCHANGED <<fs, deletions>>
          ELSE IF tool = "silent"
          THEN PackReturned(fs, Said(<<InPhase("pack", ZipStart(orch) + 10, n), InPhase("pack", ZipEnd(orch), n)>>), FALSE, "found")
          ELSE /\ n > 0
               /\ old.kind \in {"none", "rar"}
               /\ PackReturned(WriteFile(fs, conv, Archive("rar", old.pages \cup tmpFiles)),
                               Said(<<InPhase("pack", ZipStart(orch) + 10, n), InPhase("pack", ZipEnd(orch), n)>>), TRUE, "found")

\* The compose step of convert_cbz_to_pdf: PIL opens every image and saves
\* one PDF.
PackCompose ==
  /\ Packer(orch, target, srcFmt) = "compose"
  /\ \E ok \in BOOLEAN :
       IF ~ok
       THEN /\ RaiseInTmp("ComposeFailed", St, jlog[idx])
            /\ UNCHANGED <<fs, deletions>>
       ELSE PackReturned(WriteFile(fs, conv, Archive("pdf", tmpFiles)), Said(<<S("ConvertingImages")>>), TRUE, "none")

Pack ==
  /\ pc = "pack"
  /\ (PackZip \/ PackRar \/ PackCompose)
  /\ UNCHANGED <<inputs, orch, batchRaised>>

\* A convert_file that takes the pipeline's return for success.
C2_Mutant_SuccessCheck(fsx, cv) == TRUE

\* success = converted_path.exists()
SuccessCheck(fsx, cv) == Exists(fsx, cv)

\* A convert_file that unlinks the converted file.
C4_Mutant_UnlinkTarget(orig, cv) == cv

\* The file convert_file unlinks.
UnlinkTarget(orig, cv) == orig

\* convert_file after the pipeline returned (113-121 / 108-116): the
\* existence check, then the removal of the original.  unlink may raise:
\* success has been assigned by then and stays.
Check ==
  /\ pc = "check"
  /\ LET p == files[idx]
         ok == SuccessCheck(fs, conv)
         job == [jlog[idx] EXCEPT !.checked = TRUE, !.tmpAtCheck = tmpDirs, !.existedAtCheck = Exists(fs, conv)]
         victim == UnlinkTarget(p, conv)
     IN IF ok /\ deleteOriginal
        THEN \E removed \in BOOLEAN :
               IF removed
               THEN /\ Exists(fs, victim)
                    /\ fs' = WriteFile(fs, victim, NoFile)
                    /\ deletions' = Append(deletions, [path |-> victim, job |-> idx])
                    /\ EndJob(Result(p, conv, TRUE, ""), St, job, tmpDirs)
               ELSE /\ EndJob(Result(p, conv, TRUE, "UnlinkFailed"), St, job, tmpDirs)
                    /\ UNCHANGED <<fs, deletions>>
        ELSE /\ EndJob(Result(p, conv, ok, IF ok THEN "" ELSE "NotCreated"), St, job, tmpDirs)
             /\ UNCHANGED <<fs, deletions>>
  /\ UNCHANGED <<inputs, orch, batchRaised, tmpDirs>>

\* ------------------------------------------------------------ the worker

\* run 34-54, before the try block: the selection, the construction of the
\* orchestrator (which opens its log file and may raise) and two status
\* messages.  An exception here leaves run().
WorkerSetup ==
  /\ pc = "setup"
  /\ \E built \in BOOLEAN :
       IF built
       THEN /\ orch' = SelectConverter(target, files)
            /\ signals' = signals \o <<StatusSig(IF SelectConverter(target, files) = "pdf"
                                                 THEN "InitializingPdf" ELSE "InitializingArchive"),
                                       StatusSig("Starting")>>
            /\ pc' = "batch"
       ELSE /\ pc' = "crashed"
            /\ UNCHANGED <<orch, signals>>
  /\ UNCHANGED <<inputs, fs, idx, conv, srcFmt, tmpDirs, tmpFiles, results, sunk, lastPct, batchRaised, jlog, deletions>>

\* run 56-65: convert_batch returned.
FinishSignals(res) == <<StatusSig("Completed"), ResultSig(res), ProgressSig(100), FinishedSig>>

\* An except branch that reports the partial results and never finishes.
C9_Mutant_ExceptSignals == <<StatusSig("Failed"), ResultSig(results), ProgressSig(100)>>

\* run 66-75: convert_batch raised.
ExceptSignals == <<StatusSig("Failed"), ResultSig(<<>>), ProgressSig(100), FinishedSig>>

WorkerFinish ==
  /\ pc = "batch"
  /\ idx > N
  /\ signals' = signals \o FinishSignals(results)
  /\ pc' = "done"
  /\ UNCHANGED <<inputs, fs, orch, idx, conv, srcFmt, tmpDirs, tmpFiles, results, sunk, lastPct, batchRaised, jlog, deletions>>

WorkerExcept ==
  /\ pc = "raised"
  /\ signals' = signals \o ExceptSignals
  /\ pc' = "done"
  /\ UNCHANGED <<inputs, fs, orch, idx, conv, srcFmt, tmpDirs, tmpFiles, results, sunk, lastPct, batchRaised, jlog, deletions>>

Next ==
  \/ WorkerSetup
  \/ JobStart
  \/ PipelineEnter
  \/ Extract
  \/ Pack
  \/ Check
  \/ WorkerFinish
  \/ WorkerExcept

Spec == Init /\ [][Next]_vars

\* ------------------------------------------- emit_progress on its own

\* The (current, total) pairs emit_progress is called with: below zero,
\* zero, a pair the float quotient brings one short after its neighbour, 100% and
\* more than 100%.
ThrottleCurrents == {-1, 0, 28, 29, 100, 200}
ThrottleTotals == {100, 200}

\* A worker as __init__ leaves it, on which nothing but emit_progress is
\* called.
ThrottleInit ==
  /\ files = <<>>
  /\ target = "cbz"
  /\ deleteOriginal = FALSE
  /\ fs0 = [p \in Paths |-> NoFile]
  /\ fs = fs0
  /\ orch = "none"
  /\ pc = "calls"
  /\ idx = 1
  /\ conv = NoPath
  /\ srcFmt = "None"
  /\ tmpDirs = 0
  /\ tmpFiles = {}
  /\ results = <<>>
  /\ sunk = <<>>
  /\ signals = <<>>
  /\ lastPct = -1
  /\ batchRaised = FALSE
  /\ jlog = <<>>
  /\ deletions = <<>>

\* One call emit_progress(current, total) with total > 0.  sunk logs the
\* call and whether it was forwarded as a progress signal.
ThrottleCall ==
  /\ pc = "calls"
  /\ Len(sunk) < MaxCalls
  /\ \E c \in ThrottleCurrents, t \in ThrottleTotals :
       LET w == emit_progress([signals |-> signals, last |-> lastPct], c, t)
       IN /\ signals' = w.signals
          /\ lastPct' = w.last
          /\ sunk' = Append(sunk, [job |-> 0, cur |-> c, tot |-> t, pct |-> c,
                                   fwd |-> Len(w.signals) > Len(signals)])
  /\ UNCHANGED <<inputs, fs, orch, pc, idx, conv, srcFmt, tmpDirs, tmpFiles, results,
                 batchRaised, jlog, deletions>>

ThrottleSpec == ThrottleInit /\ [][ThrottleCall]_vars

\* ------------------------------------- detect_archive_format on its own

MaxDetects == 2

\* The paths detection is asked about: with and without a name, the
\* suffixes in either letter case.
DetectPaths == [stem : Stems, suffix : Suffixes \cup {".PDF", ".CBZ"}] \cup {Root}

\* What lies under the path: nothing, an empty file, bytes of no archive,
\* a file that cannot be read, a ZIP, a RAR, a file that is both, a PDF.
DetectContents ==
  {NoFile, Junk, [kind |-> "empty", pages |-> {}], [kind |-> "locked", pages |-> {}]}
    \cup {Archive(k, 1..n) : k \in {"zip", "rar", "both", "pdf"}, n \in 0..MaxEntries}

DetectInit ==
  /\ files \in {<<p>> : p \in DetectPaths}
  /\ target = "cbz"
  /\ deleteOriginal = FALSE
  /\ fs0 \in {[q \in {files[1]} |-> c] : c \in DetectContents}
  /\ fs = fs0
  /\ orch = "none"
  /\ pc = "detect"
  /\ idx = 1
  /\ conv = NoPath
  /\ srcFmt = "None"
  /\ tmpDirs = 0
  /\ tmpFiles = {}
  /\ results = <<>>
  /\ sunk = <<>>
  /\ signals = <<>>
  /\ lastPct = -1
  /\ batchRaised = FALSE
  /\ jlog = <<>>
  /\ deletions = <<>>

\* One call detect_archive_format(path): results logs the answers.
DetectCall ==
  /\ pc = "detect"
  /\ Len(results) < MaxDetects
  /\ results' = Append(results, detect_archive_format(fs, files[1]))
  /\ UNCHANGED <<inputs, fs, orch, pc, idx, conv, srcFmt, tmpDirs, tmpFiles, sunk, signals,
                 lastPct, batchRaised, jlog, deletions>>

DetectSpec == DetectInit /\ [][DetectCall]_vars

\* --------------------------------------- the per-file callback on its own

MaxForwards == 2

\* The raw (current, total) pairs the callback is called with: totals
\* below zero, zero and above; currents below zero, zero, fractions of the
\* total that are no whole percentage, a pair the float quotient brings
\* one short, the total and more.
CallbackCurrents == {-1, 0, 1, 2, 3, 29, 100}
CallbackTotals == {-2, 0, 3, 100}

\* A sink on which nothing was called yet.
CallbackInit ==
  /\ files = <<>>
  /\ target = "cbz"
  /\ deleteOriginal = FALSE
  /\ fs0 = [p \in Paths |-> NoFile]
  /\ fs = fs0
  /\ orch = "none"
  /\ pc = "callback"
  /\ idx = 1
  /\ conv = NoPath
  /\ srcFmt = "None"
  /\ tmpDirs = 0
  /\ tmpFiles = {}
  /\ results = <<>>
  /\ sunk = <<>>
  /\ signals = <<>>
  /\ lastPct = -1
  /\ batchRaised = FALSE
  /\ jlog = <<>>
  /\ deletions = <<>>

\* One call callback(current, total) of a callback created with
\* is_last_file = isLast: sunk logs what it forwards, (pct, 100).
CallbackCall ==
  /\ pc = "callback"
  /\ Len(sunk) < MaxForwards
  /\ \E c \in CallbackCurrents, t \in CallbackTotals, isLast \in BOOLEAN :
       sunk' = Append(sunk, [job |-> 0, cur |-> c, tot |-> t,
                             pct |-> PerFilePercent(c, t, isLast), last |-> isLast])
  /\ UNCHANGED <<inputs, fs, orch, pc, idx, conv, srcFmt, tmpDirs, tmpFiles, results, signals,
                 lastPct, batchRaised, jlog, deletions>>

CallbackSpec == CallbackInit /\ [][CallbackCall]_vars

\* ------------------------------------- validate_comic_archive on its own

MaxValidations == 1

\* What lies under the validated path: as for detection, the archives
\* with or without a ComicInfo.xml entry and entries in folders.
ValidateContents ==
  {[kind |-> k, pages |-> {}, meta |-> FALSE, folders |-> FALSE] : k \in {"none", "junk", "locked"}}
    \cup [kind : {"zip", "rar", "pdf"}, pages : {1..n : n \in 0..MaxEntries},
          meta : BOOLEAN, folders : BOOLEAN]

\* The details dictionary as validate_comic_archive creates it.
ZeroDetails == [imageCount |-> 0, hasMetadata |-> FALSE, hasFolders |-> FALSE,
                imageFiles |-> {}, totalSize |-> 0]

Report(valid, fmt, details, raised) ==
  [isValid |-> valid, format |-> fmt, details |-> details, raised |-> raised]

\* _validate_zip_archive / _validate_rar_archive: opening the archive may
\* raise; the scan counts the image entries and adds up their sizes (one
\* unit each).
ValidateArchiveReports(fmt, file) ==
  LET scanned == [imageCount |-> Cardinality(file.pages), hasMetadata |-> file.meta,
                  hasFolders |-> file.folders, imageFiles |-> file.pages,
                  totalSize |-> Cardinality(file.pages)]
  IN {Report(FALSE, fmt, ZeroDetails, TRUE), Report(scanned.imageCount > 0, fmt, scanned, FALSE)}

\* _validate_pdf_file: fitz.open raises on what is no PDF or cannot be
\* read; image_count is assigned, then archive_path.stat() may raise; the
\* handler returns the dictionary as it is by then.
ValidatePdfReports(file) ==
  IF file.kind # "pdf" THEN {Report(FALSE, "PDF", ZeroDetails, TRUE)}
  ELSE LET counted == [ZeroDetails EXCEPT !.imageCount = Cardinality(file.pages)]
           sized == [counted EXCEPT !.totalSize = 1 + Cardinality(file.pages)]
       IN {Report(FALSE, "PDF", ZeroDetails, TRUE),
           Report(FALSE, "PDF", counted, TRUE),
           Report(sized.imageCount > 0, "PDF", sized, FALSE)}

\* validate_comic_archive: the reports it can return for the path.
ValidateReports(fsx, p) ==
  LET fmt == detect_archive_format(fsx, p)
  IN IF fmt = "None" THEN {Report(FALSE, "UNKNOWN", ZeroDetails, FALSE)}
     ELSE IF fmt = "PDF" THEN ValidatePdfReports(FileAt(fsx, p))
     ELSE ValidateArchiveReports(fmt, FileAt(fsx, p))

ValidateInit ==
  /\ files \in {<<p>> : p \in DetectPaths}
  /\ target = "cbz"
  /\ deleteOriginal = FALSE
  /\ fs0 \in {[q \in {files[1]} |-> c] : c \in ValidateContents}
  /\ fs = fs0
  /\ orch = "none"
  /\ pc = "validate"
  /\ idx = 1
  /\ conv = NoPath
  /\ srcFmt = "None"
  /\ tmpDirs = 0
  /\ tmpFiles = {}
  /\ results = <<>>
  /\ sunk = <<>>
  /\ signals = <<>>
  /\ lastPct = -1
  /\ batchRaised = FALSE
  /\ jlog = <<>>
  /\ deletions = <<>>

\* One call validate_comic_archive(path): results logs the report.
ValidateCall ==
  /\ pc = "validate"
  /\ Len(results) < MaxValidations
  /\ \E r \in ValidateReports(fs, files[1]) : results' = Append(results, r)
  /\ UNCHANGED <<inputs, fs, orch, pc, idx, conv, srcFmt, tmpDirs, tmpFiles, sunk, signals,
                 lastPct, batchRaised, jlog, deletions>>

ValidateSpec == ValidateInit /\ [][ValidateCall]_vars

\* ------------------------------------------------------ the round trip

MaxTripEntries == 2

\* The other container format.
Opposite(tok) == IF tok = "cbz" THEN "cbr" ELSE "cbz"

\* A well-formed CBR or CBZ, alone in its directory, to be converted to
\* the other container format.
RoundTripInit ==
  /\ files \in {<<p>> : p \in {q \in Paths : q.suffix \in {".cbr", ".cbz"}}}
  /\ target = (IF files[1].suffix = ".cbr" THEN "cbz" ELSE "cbr")
  /\ deleteOriginal \in BOOLEAN
  /\ fs0 \in {[q \in Paths |-> IF q = files[1]
                                THEN Archive(IF q.suffix = ".cbr" THEN "rar" ELSE "zip", 1..n)
                                ELSE NoFile] : n \in 0..MaxTripEntries}
  /\ fs = fs0
  /\ orch = "none"
  /\ pc = "setup"
  /\ idx = 1
  /\ conv = NoPath
  /\ srcFmt = "None"
  /\ tmpDirs = 0
  /\ tmpFiles = {}
  /\ results = <<>>
  /\ sunk = <<>>
  /\ signals = <<>>
  /\ lastPct = -1
  /\ batchRaised = FALSE
  /\ jlog = <<>>
  /\ deletions = <<>>

\* The run is that of the way back: its input did not exist at the start.
WayBack == pc # "setup" /\ files # <<>> /\ ~Exists(fs0, files[1])

\* After a successful conversion a second worker is created for the
\* converted file, with the other target.
Turn ==
  /\ pc = "done"
  /\ Exists(fs0, files[1])
  /\ Len(results) = 1
  /\ results[1].success
  /\ files' = <<results[1].convertedPath>>
  /\ target' = Opposite(target)
  /\ pc' = "setup"
  /\ idx' = 1
  /\ orch' = "none"
  /\ results' = <<>>
  /\ jlog' = <<>>
  /\ sunk' = <<>>
  /\ signals' = <<>>
  /\ lastPct' = -1
  /\ UNCHANGED <<deleteOriginal, fs0, fs, conv, srcFmt, tmpDirs, tmpFiles, batchRaised, deletions>>

RoundTripNext ==
  \/ WorkerSetup
  \/ JobStart
  \/ PipelineEnter
  \/ Extract
  \/ Pack
  \/ Check
  \/ WorkerFinish
  \/ Turn

RoundTripSpec == RoundTripInit /\ [][RoundTripNext]_vars

\* ------------------------------ a source that changes under the job

\* Between convert_file's detection and the pipeline's re-check another
\* process removes the source or replaces its content.
Disturb ==
  /\ pc = "pipeline"
  /\ \E c \in ContentsOf(files[idx]) :
       /\ c # FileAt(fs, files[idx])
       /\ fs' = WriteFile(fs, files[idx], c)
  /\ UNCHANGED <<inputs, orch, pc, idx, conv, srcFmt, tmpDirs, tmpFiles, results, sunk,
                 signals, lastPct, batchRaised, jlog, deletions>>

\* The run of one file.
RecheckInit == Init /\ Len(files) = 1

RecheckNext ==
  \/ WorkerSetup
  \/ JobStart
  \/ Disturb
  \/ PipelineEnter
  \/ Extract
  \/ Pack
  \/ Check
  \/ WorkerFinish
  \/ WorkerExcept

RecheckSpec == RecheckInit /\ [][RecheckNext]_vars

\* ------------------------------------------- the packers on their own

MaxPackCalls == 2

\* What lies under source_path: nothing, a regular file, or a directory.
PackSources == {"missing", "file", "dir"}

\* What a call of a packer did: the error it raised ("" for none), the
\* runs of the rar tool, the calls on progress_callback, and whether the
\* output path was created or written.
PackReport(err, runs, calls, touched) ==
  [error |-> err, toolRuns |-> runs, progressCalls |-> calls, outputTouched |-> touched]

\* create_zip_archive: the test of source_path (95-96), then the walk and
\* the ZipFile; opening the output may fail, and so may the write of any file.
CreateZipReports(src, n) ==
  IF src # "dir" THEN {PackReport("SourceDirectoryMissing", 0, 0, FALSE)}
  ELSE {PackReport("ZipFailed", 0, 0, FALSE), PackReport("", 0, n, TRUE)}
         \cup {PackReport("ZipFailed", 0, w, TRUE) : w \in 0..(n - 1)}

\* create_rar_archive: the probe of the tool (140), the walk (os.walk of
\* what is no directory yields nothing), progress_callback(start_progress
\* + 10, total_files) (155), rar a -r -ep1 (162), progress_callback(
\* end_progress, total_files) (167).  source_path is not tested.
CreateRarReports(src, n) ==
  {PackReport(RarError("missing"), 0, 0, FALSE),
   PackReport(RarError("error"), 2, 1, FALSE),
   PackReport("", 2, 2, FALSE)}
    \cup (IF src = "dir" /\ n > 0 THEN {PackReport("", 2, 2, TRUE)} ELSE {})

PackInit ==
  /\ files = <<>>
  /\ target = "cbz"
  /\ deleteOriginal = FALSE
  /\ fs0 = [q \in Paths |-> NoFile]
  /\ fs = fs0
  /\ orch = "none"
  /\ pc = "packers"
  /\ idx = 1
  /\ conv = NoPath
  /\ srcFmt = "None"
  /\ tmpDirs = 0
  /\ tmpFiles = {}
  /\ results = <<>>
  /\ sunk = <<>>
  /\ signals = <<>>
  /\ lastPct = -1
  /\ batchRaised = FALSE
  /\ jlog = <<>>
  /\ deletions = <<>>

\* One call create_zip_archive(source_path, out, cb) or
\* create_rar_archive(source_path, out, cb): results logs what it did.
PackCall ==
  /\ pc = "packers"
  /\ Len(results) < MaxPackCalls
  /\ \E op \in {"zip", "rar"}, src \in PackSources, n \in 0..MaxEntries :
       /\ (src # "dir" => n = 0)
       /\ \E r \in (IF op = "zip" THEN CreateZipReports(src, n) ELSE CreateRarReports(src, n)) :
            results' = Append(results, [op |-> op, src |-> src, files |-> n, report |-> r])
  /\ UNCHANGED <<inputs, fs, orch, pc, idx, conv, srcFmt, tmpDirs, tmpFiles, sunk, signals,
                 lastPct, batchRaised, jlog, deletions>>

PackSpec == PackInit /\ [][PackCall]_vars

\* ----------------------------------- batches with the target PDF

\* The token of the PDF target, as the presentation layer may spell it.
PdfTokens == {"pdf", "PDF"}

SelectInit ==
  /\ files \in Batches
  /\ target \in PdfTokens
  /\ deleteOriginal \in BOOLEAN
  /\ fs0 \in {f \in [Paths -> UNION {ContentsOf(p) : p \in Paths}] :
                \A p \in Paths : f[p] \in (IF p \in Touched(files, target) THEN ContentsOf(p) ELSE {NoFile})}
  /\ fs = fs0
  /\ orch = "none"
  /\ pc = "setup"
  /\ idx = 1
  /\ conv = NoPath
  /\ srcFmt = "None"
  /\ tmpDirs = 0
  /\ tmpFiles = {}
  /\ results = <<>>
  /\ sunk = <<>>
  /\ signals = <<>>
  /\ lastPct = -1
  /\ batchRaised = FALSE
  /\ jlog = <<>>
  /\ deletions = <<>>

SelectSpec == SelectInit /\ [][Next]_vars

\* ------------------------------------------- the conversion window

MaxClicks == 2

\* A worker on its thread: the jobs it has left, and whether it runs.
Worker(n) == [left |-> n, running |-> TRUE]

Running == {w \in 1..Len(jlog) : jlog[w].running}

WindowInit ==
  /\ files = <<>>
  /\ target = "cbz"
  /\ deleteOriginal = FALSE
  /\ fs0 = [q \in Paths |-> NoFile]
  /\ fs = fs0
  /\ orch = "none"
  /\ pc = "window"
  /\ idx = 1
  /\ conv = NoPath
  /\ srcFmt = "None"
  /\ tmpDirs = 0
  /\ tmpFiles = {}
  /\ results = <<>>
  /\ sunk = <<>>
  /\ signals = <<>>
  /\ lastPct = -1
  /\ batchRaised = FALSE
  /\ jlog = <<>>
  /\ deletions = <<>>

\* ConvertWindow.start_conversion, the slot of the Convert button, which
\* stays enabled: with a format checked and n files selected it creates a
\* QThread and a ConversionWorker, stores them in self.thread and
\* self.worker and starts the thread.  It does not look whether a worker
\* is running.  Replacing self.thread drops the last reference to a
\* QThread that may still run: Qt then either aborts the process or the
\* thread lives on, depending on when the wrapper is collected.
StartConversion ==
  /\ pc = "window"
  /\ Len(jlog) < MaxClicks
  /\ \E n \in 1..MaxBatch, aborts \in BOOLEAN :
       IF aborts
       THEN /\ Running # {}
            /\ pc' = "aborted"
            /\ jlog' = [w \in 1..Len(jlog) |-> [jlog[w] EXCEPT !.running = FALSE]]
       ELSE /\ jlog' = Append(jlog, Worker(n))
            /\ pc' = pc
  /\ UNCHANGED <<inputs, fs, orch, idx, conv, srcFmt, tmpDirs, tmpFiles, results, sunk, signals,
                 lastPct, batchRaised, deletions>>

\* A running worker converts its next file (one iteration of convert_batch).
WorkerJob ==
  /\ pc = "window"
  /\ \E w \in Running :
       /\ jlog[w].left > 0
       /\ jlog' = [jlog EXCEPT ![w].left = @ - 1]
       /\ sunk' = Append(sunk, w)
  /\ UNCHANGED <<inputs, fs, orch, pc, idx, conv, srcFmt, tmpDirs, tmpFiles, results, signals,
                 lastPct, batchRaised, deletions>>

\* A worker emits finished: its thread quits.
WorkerDone ==
  /\ pc = "window"
  /\ \E w \in Running :
       /\ jlog[w].left = 0
       /\ jlog' = [jlog EXCEPT ![w].running = FALSE]
  /\ UNCHANGED <<inputs, fs, orch, pc, idx, conv, srcFmt, tmpDirs, tmpFiles, results, sunk, signals,
                 lastPct, batchRaised, deletions>>

WindowNext ==
  \/ StartConversion
  \/ WorkerJob
  \/ WorkerDone

WindowSpec == WindowInit /\ [][WindowNext]_vars

\* ----------------------------- the image loop of convert_cbz_to_pdf

MaxImages == 2

\* Entry names of the source archive: a folder ("" for none) and a base name.
EntryName(d, b) == [dir |-> d, base |-> b]
EntryNames == {EntryName("", "1.png"), EntryName("", "2.png"), EntryName("a", "1.png"),
               EntryName("a", "2.png"), EntryName("b", "1.png")}
BaseNames == {n.base : n \in EntryNames}

\* The place of a name in the order of list.sort() on the names as strings
\* ("1.png" < "2.png" < "a/1.png" < "a/2.png" < "b/1.png").
NameRank(n) ==
  (IF n.dir = "" THEN 0 ELSE IF n.dir = "a" THEN 2 ELSE 4) + (IF n.base = "1.png" THEN 0 ELSE 1)

\* image_files.sort()
RECURSIVE SortedNames(_)
SortedNames(ns) ==
  IF ns = {} THEN <<>>
  ELSE LET first == CHOOSE n \in ns : \A m \in ns : NameRank(n) <= NameRank(m)
       IN <<first>> \o SortedNames(ns \ {first})

\* The archives: image entries under some of the names, each with its
\* bytes (a number stands for an image).
CbzArchives == UNION {[ns -> 1..MaxImages] : ns \in SUBSET EntryNames}

\* The loop 229-233: every entry is written to temp_path / Path(img_name).name,
\* the temporary directory being a map from base names to bytes (0: no file).
RECURSIVE WriteImages(_, _, _)
WriteImages(names, arch, tmp) ==
  IF names = <<>> THEN tmp
  ELSE WriteImages(Tail(names), arch, [tmp EXCEPT ![Head(names).base] = arch[Head(names)]])

\* convert_cbz_to_pdf on the archive: the pages of the PDF it saves.  The
\* list extracted_images holds one path per entry; the images are opened
\* after the loop has ended (238-243).
ComposedPages(arch) ==
  LET names == SortedNames(DOMAIN arch)
      tmp == WriteImages(names, arch, [b \in BaseNames |-> 0])
  IN [k \in 1..Len(names) |-> tmp[names[k].base]]

ComposeInit ==
  /\ files = <<>>
  /\ target = "pdf"
  /\ deleteOriginal = FALSE
  /\ fs0 = [q \in Paths |-> NoFile]
  /\ fs = fs0
  /\ orch = "pdf"
  /\ pc = "compose"
  /\ idx = 1
  /\ conv = NoPath
  /\ srcFmt = "CBZ"
  /\ tmpDirs = 0
  /\ tmpFiles = {}
  /\ results = <<>>
  /\ sunk = <<>>
  /\ signals = <<>>
  /\ lastPct = -1
  /\ batchRaised = FALSE
  /\ jlog = <<>>
  /\ deletions = <<>>

\* One call convert_cbz_to_pdf(cbz, out): results logs the archive and the
\* pages of the PDF; an archive without images raises (222-223).
ComposeCall ==
  /\ pc = "compose"
  /\ results = <<>>
  /\ \E arch \in CbzArchives :
       results' = <<[archive |-> arch, entries |-> SortedNames(DOMAIN arch),
                     raised |-> DOMAIN arch = {},
                     pages |-> ComposedPages(arch)]>>
  /\ UNCHANGED <<inputs, fs, orch, pc, idx, conv, srcFmt, tmpDirs, tmpFiles, sunk, signals,
                 lastPct, batchRaised, jlog, deletions>>

ComposeSpec == ComposeInit /\ [][ComposeCall]_vars


\* =============================================================== claims

Returned == 1..Len(results)

\* C1: for every batch of N >= 0 input paths convert_batch returns exactly
\* N result records, the i-th carrying the i-th input path as originalPath;
\* a failing job never keeps the next job from running (no exception ends
\* the batch early); an empty batch returns the empty list.
C1_BatchReturnsOneRecordPerInput ==
  /\ ~batchRaised
  /\ pc = "done" => /\ Len(results) = N
                    /\ \A i \in 1..N : results[i].originalPath = files[i]

\* C2: success is reported only if the converted path existed when it was
\* checked after the pack/compose step had returned; when the pipeline
\* returned without raising and the converted path did not exist, the
\* result is success = false with the "was not created" message.
C2_SuccessOnlyIfOutputExists ==
  \A i \in Returned :
    /\ results[i].success => (jlog[i].packReturned /\ jlog[i].checked /\ jlog[i].existedAtCheck)
    /\ (jlog[i].packReturned /\ ~jlog[i].existedAtCheck)
         => (~results[i].success /\ results[i].errorMessage = "NotCreated")

\* C2 witness: a batch in which one job's packer returned without creating
\* the output (reported "was not created") and another job succeeded.
C2_Witness ==
  \E i, j \in Returned :
    /\ jlog[i].packReturned /\ ~jlog[i].existedAtCheck /\ results[i].errorMessage = "NotCreated"
    /\ results[j].success /\ jlog[j].existedAtCheck

\* The supported pairs of the orchestrator handling the batch (the token
\* compared without regard to case).
InTable(o, src, tok) ==
  IF o = "cb"
  THEN <<src, Lower(tok)>> \in {<<"CBR", "cbz">>, <<"CBZ", "cbr">>}
  ELSE <<src, Lower(tok)>> \in {<<"PDF", "cbz">>, <<"CBZ", "pdf">>}

\* C3: a job whose (detected source format, requested target) pair is not
\* in the supported table of its orchestrator, a detection of None
\* included, ends with success = false and the "Unsupported conversion type
\* or file extension" message, having created no temporary directory and
\* written no file.
C3_UnsupportedPairReportsUnsupported ==
  \A i \in Returned :
    ~InTable(orch, jlog[i].src, target)
      => /\ ~results[i].success
         /\ results[i].errorMessage = "Unsupported"
         /\ jlog[i].tmpMade = 0
         /\ ~jlog[i].wrote

\* C4: the only file ever removed is the original of a job run with
\* deleteOriginal, after that job's pack/compose step returned and its
\* converted path was seen to exist; a job without deleteOriginal, or one
\* that ends with success = false, removes nothing.
C4_OnlyOriginalDeletedAfterSuccess ==
  /\ \A d \in 1..Len(deletions) :
       LET j == deletions[d].job
       IN /\ deletions[d].path = files[j]
          /\ deleteOriginal
          /\ jlog[j].packReturned /\ jlog[j].checked /\ jlog[j].existedAtCheck
          /\ j \in Returned => results[j].success
  /\ \A p \in Paths :
       (Exists(fs0, p) /\ ~Exists(fs, p)) => \E d \in 1..Len(deletions) : deletions[d].path = p

\* C4 witness: a job removed its original after its output was seen to exist.
C4_Witness ==
  \E d \in 1..Len(deletions) :
    /\ deletions[d].job \in Returned
    /\ ~Exists(fs, files[deletions[d].job])
    /\ results[deletions[d].job].success

\* C5: convert_file always returns a result and never raises; no exception
\* raised inside a job leaves convert_batch.
C5_NoExceptionLeavesTheJob == pc # "raised"


\* C6 as claimed: every job that gets past the format gate creates one
\* temporary directory; the directory is gone when convert_file returns and
\* already at the output-existence check; never do two temporary
\* directories exist at once.
C6_EveryGatedJobMakesOneTmpDir ==
  /\ tmpDirs <= 1
  /\ \A i \in 1..Len(jlog) : jlog[i].checked => jlog[i].tmpAtCheck = 0
  /\ \A i \in Returned : jlog[i].tmpAtReturn = 0
  /\ \A i \in Returned : jlog[i].gate => jlog[i].tmpMade = 1

\* C6 as amended: a job creates one temporary directory when it gets past
\* the format gate and the pipeline's re-check of the source, and none
\* otherwise; the directory is gone when convert_file returns, whether the
\* extract/pack sequence completed or raised, and already at the
\* output-existence check; never do two temporary directories exist at once.
C6_TmpDirScopedToPipeline ==
  /\ tmpDirs <= 1
  /\ \A i \in 1..Len(jlog) : jlog[i].checked => jlog[i].tmpAtCheck = 0
  /\ \A i \in Returned : jlog[i].tmpAtReturn = 0
  /\ \A i \in Returned : jlog[i].tmpMade = (IF jlog[i].gate /\ jlog[i].rechecked THEN 1 ELSE 0)
  /\ pc \in {"batch", "raised", "done", "crashed"} => tmpDirs = 0

\* C6 witness: one job's pipeline raised inside the extract/pack sequence
\* and another job's completed, each having created a temporary directory.
C6_Witness ==
  \E i, j \in Returned :
    /\ jlog[i].tmpMade = 1 /\ ~jlog[i].packReturned
    /\ jlog[j].tmpMade = 1 /\ jlog[j].checked

\* C7: a per-file callback of a file that is not the last forwards only
\* percentages in 0..99, also for a raw (total, total); the callback of the
\* last file forwards 100 for a raw (total, total) with total > 0.  So no
\* 100 reaches the sink during the jobs of the files before the last.
C7_No100BeforeLastFile ==
  \A k \in 1..Len(sunk) :
    /\ sunk[k].pct \in 0..100
    /\ sunk[k].job < N => sunk[k].pct \in 0..99
    /\ (sunk[k].job = N /\ sunk[k].tot > 0 /\ sunk[k].cur = sunk[k].tot) => sunk[k].pct = 100

\* C7 witness: a raw (total, total) was fed to the callback of a file that
\* is not the last and to the callback of the last file.
C7_Witness ==
  \E k, m \in 1..Len(sunk) :
    /\ sunk[k].job < N /\ sunk[k].tot > 0 /\ sunk[k].cur = sunk[k].tot /\ sunk[k].pct = 99
    /\ sunk[m].job = N /\ sunk[m].tot > 0 /\ sunk[m].cur = sunk[m].tot /\ sunk[m].pct = 100

SignalsAt(kind) == {k \in 1..Len(signals) : signals[k].sig = kind}
Progress100 == {k \in SignalsAt("progress") : signals[k].pct = 100}

\* C8: in a worker run over N >= 1 files a progress signal carrying 100 is
\* emitted exactly once, after the result signal; none precedes the result
\* signal.
C8_Single100AfterResult ==
  /\ \A k \in Progress100 : \E r \in SignalsAt("result") : r < k
  /\ (pc = "done" /\ N >= 1) => Cardinality(Progress100) = 1

\* C9: a run of the worker that called convert_batch emits the result
\* signal once and the finished signal once, finished after result,
\* whether convert_batch returned or raised; when it raised the result is
\* the empty list and a "failed" status message is emitted; nothing of the
\* kind is emitted before convert_batch is over.
C9_ResultThenFinishedOnce ==
  /\ pc = "done" =>
       /\ Cardinality(SignalsAt("result")) = 1
       /\ Cardinality(SignalsAt("finished")) = 1
       /\ \A r \in SignalsAt("result") :
            /\ \A f \in SignalsAt("finished") : r < f
            /\ signals[r].res = (IF batchRaised THEN <<>> ELSE results)
       /\ batchRaised => \E k \in SignalsAt("status") : signals[k].tag = "Failed"
  /\ pc \notin {"done"} => SignalsAt("result") \cup SignalsAt("finished") = {}

\* C9 witness: a run whose convert_batch raised after a job had returned
\* its result, over.
C9_Witness == pc = "done" /\ batchRaised /\ Len(results) > 0

\* What convert_file can return for path p, run alone by orchestrator o on
\* the file system fsx: the set of (success, errorMessage) over the ways
\* the environment (I/O errors, the rar tool, unlink) may act.
AloneOutcomes(fsx, o, p, tok, del) ==
  LET src == detect_archive_format(fsx, p)
      g == Gate(o, tok, src)
      cv == ConvertedPath(o, p, tok)
      n == Cardinality(FileAt(fsx, p).pages)
      old == FileAt(fsx, cv)
      pk == Packer(o, tok, src)
      Checked(exists) ==
        IF exists
        THEN (IF del THEN {<<TRUE, "">>, <<TRUE, "UnlinkFailed">>} ELSE {<<TRUE, "">>})
        ELSE {<<FALSE, "NotCreated">>}
  IN IF g = "attr" THEN {<<FALSE, "NoneTypeHasNoUpper">>}
     ELSE IF g = "unsupported" THEN {<<FALSE, "Unsupported">>}
     ELSE IF RecheckFails(fsx, p, Expected(o, tok, src))
     THEN {<<FALSE, RecheckError(fsx, p, Expected(o, tok, src))>>}
     ELSE IF o = "pdf" /\ Lower(tok) = "cbz" /\ FileAt(fsx, p).kind # "pdf" THEN {<<FALSE, "PdfOpenFailed">>}
     ELSE IF NoImagesFound(o, tok, n) THEN {<<FALSE, "NoImages">>}
     ELSE (IF n > 0 THEN {<<FALSE, "ExtractFailed">>} ELSE {})
          \cup (IF pk = "zip" THEN {<<FALSE, "ZipFailed">>} \cup Checked(TRUE)
                ELSE IF pk = "rar"
                THEN {<<FALSE, "RarToolMissing">>, <<FALSE, "RarFailed">>}
                       \cup Checked(SuccessCheck(fsx, cv))
                       \cup (IF n > 0 /\ old.kind \in {"none", "rar"} THEN Checked(TRUE) ELSE {})
                ELSE {<<FALSE, "ComposeFailed">>} \cup Checked(TRUE))

\* C10: in any batch the result of file j (success flag and error message)
\* is the result converting file j alone, with the same target and delete
\* flag from the same initial file system, would produce.
C10_ResultIndependentOfBatch ==
  \A j \in Returned :
    <<results[j].success, results[j].errorMessage>>
      \in AloneOutcomes(fs0, orch, files[j], target, deleteOriginal)

\* A batch of one file is that file alone: AloneOutcomes agrees with the
\* actions on every batch of one file.
AloneOutcomesAgreeOnSingleton ==
  N = 1 => C10_ResultIndependentOfBatch

\* C11: a run whose set-up (the selection or the construction of the
\* orchestrator) throws before the first job still emits a failure status
\* message, an empty result list and finished.
C11_SetupFailureSurfaced ==
  pc = "crashed" =>
    /\ \E k \in SignalsAt("status") : signals[k].tag = "Failed"
    /\ \E r \in SignalsAt("result") : signals[r].res = <<>>
    /\ SignalsAt("finished") # {}

\* C12: the outcome does not depend on the letter case of the target
\* token: on a batch of one file, the token selects the orchestrator its
\* lower-case form selects, passes or fails the gate as the lower-case form
\* does, and the record's success flag and error are ones the lower-case
\* form can produce on the same file.
C12_TokenCaseIrrelevant ==
  LET low == Lower(target)
      o == SelectConverter(low, files)
  IN (N = 1 /\ orch # "none") =>
       /\ orch = o
       /\ \A j \in 1..Len(jlog) :
            jlog[j].gate = (Gate(o, low, detect_archive_format(fs0, files[j])) = "pass")
       /\ \A j \in Returned :
            <<results[j].success, results[j].errorMessage>>
              \in AloneOutcomes(fs0, o, files[j], low, deleteOriginal)

\* The extension of a target format: the lower-case suffix FORMAT_MAP
\* names for it.
TargetExtension(tok) == DotSuffix(Lower(tok))

\* C13: in every result record, on success and on failure alike,
\* convertedPath is originalPath with its suffix replaced by the extension
\* of the requested target format.
C13_ConvertedPathIsOriginalWithTargetExtension ==
  \A i \in Returned :
    results[i].convertedPath = [files[i] EXCEPT !.suffix = TargetExtension(target)]

\* For the lower-case tokens the records do carry that path, whatever the
\* outcome of the attempt.
ConvertedPathCanonicalOnLowerTokens ==
  target = Lower(target) => C13_ConvertedPathIsOriginalWithTargetExtension

\* C14: a CBZ->CBR job that finds the rar tool missing finds it at the
\* pack step, after its extraction completed; its record has success =
\* false and the error text of the missing tool, a text no other failure
\* of a job produces.
C14_MissingRarToolReportedAtPack ==
  \A i \in Returned :
    /\ jlog[i].rarTool = "missing" =>
         /\ jlog[i].src = "CBZ" /\ Lower(target) = "cbr"
         /\ jlog[i].gate /\ jlog[i].extracted /\ ~jlog[i].packReturned
         /\ ~results[i].success
         /\ results[i].errorMessage = "RarToolMissing"
    /\ results[i].errorMessage = "RarToolMissing" => jlog[i].rarTool = "missing"

\* C14 witness: one job found the tool missing and another job's rar run
\* failed otherwise.
C14_Witness ==
  \E i, j \in Returned :
    /\ jlog[i].rarTool = "missing" /\ results[i].errorMessage = "RarToolMissing"
    /\ jlog[j].rarTool = "found" /\ ~results[j].success /\ results[j].errorMessage = "RarFailed"

\* C15: a CBZ->pdf job whose source archive holds no image entry returns
\* success = false with the "no images found" error, writes nothing at the
\* converted path (what lies there is what lay there before, unless
\* another job of the batch wrote it) and leaves its original in place,
\* also when deleteOriginal is set.
C15_NoImagesMeansFailureAndNoPdf ==
  \A i \in Returned :
    (orch = "pdf" /\ Lower(target) = "pdf" /\ FileAt(fs0, files[i]) = Archive("zip", {})) =>
      /\ ~results[i].success
      /\ results[i].errorMessage = "NoImages"
      /\ ~jlog[i].wrote
      /\ (\A j \in 1..Len(jlog) : ~jlog[j].wrote) =>
           FileAt(fs, results[i].convertedPath) = FileAt(fs0, results[i].convertedPath)
      /\ Exists(fs, files[i])
      /\ \A d \in 1..Len(deletions) : deletions[d].job # i

\* C15 witness: such a job returned in a batch run with deleteOriginal,
\* next to a CBZ->pdf job that succeeded.
C15_Witness ==
  \E i, j \in Returned :
    /\ orch = "pdf" /\ Lower(target) = "pdf" /\ deleteOriginal
    /\ FileAt(fs0, files[i]) = Archive("zip", {})
    /\ results[i].errorMessage = "NoImages"
    /\ Exists(fs, files[i])
    /\ results[j].success

\* The integer percentage of the k-th logged call, int((current / total) * 100).
CallPercent(k) == IntPercent(sunk[k].cur, sunk[k].tot)

\* The forwarded calls before the k-th.
ForwardedBefore(k) == {m \in 1..(k - 1) : sunk[m].fwd}

\* The percentage of the last call forwarded before the k-th, -1 (the
\* initial last_progress_percent) when none was.
LastForwardedPercent(k) ==
  IF ForwardedBefore(k) = {} THEN -1
  ELSE CallPercent(CHOOSE m \in ForwardedBefore(k) : \A x \in ForwardedBefore(k) : x <= m)

\* C16: in any sequence of emit_progress calls with total > 0 a call is
\* forwarded as a progress signal iff its integer percentage differs from
\* that of the last forwarded call (from the initial -1 before any call was
\* forwarded) or is 100; so no two consecutive forwarded signals carry the
\* same percentage below 100 and every call at 100% is forwarded; the
\* signals are the forwarded calls, in order.
C16_ForwardedIffPercentMoved ==
  /\ \A k \in 1..Len(sunk) :
       /\ sunk[k].fwd <=> (CallPercent(k) # LastForwardedPercent(k) \/ CallPercent(k) = 100)
       /\ CallPercent(k) = 100 => sunk[k].fwd
       /\ (sunk[k].fwd /\ ForwardedBefore(k) # {} /\ CallPercent(k) = LastForwardedPercent(k))
            => CallPercent(k) = 100
       /\ CallPercent(k) >= 0 /\ ForwardedBefore(k) = {} => sunk[k].fwd
  /\ Len(signals) = Cardinality({k \in 1..Len(sunk) : sunk[k].fwd})
  /\ \A k \in 1..Len(sunk) :
       sunk[k].fwd => signals[Cardinality(ForwardedBefore(k)) + 1] = ProgressSig(sunk[k].cur)

\* C16 witness: a call repeating the percentage of the last forwarded call
\* was dropped, and a call at 100% following a forwarded 100% was
\* forwarded.
C16_Witness ==
  \E k, m \in 1..Len(sunk) :
    /\ ~sunk[k].fwd /\ ForwardedBefore(k) # {} /\ CallPercent(k) < 100
    /\ sunk[m].fwd /\ ForwardedBefore(m) # {} /\ LastForwardedPercent(m) = 100 /\ CallPercent(m) = 100

\* C17: detect_archive_format answers for every path and content, in the
\* reference order: PDF whenever the suffix is .pdf in any letter case,
\* whatever lies there; otherwise CBZ for a valid ZIP; otherwise CBR for a
\* valid RAR; otherwise None (a missing, empty or unreadable file
\* included).  A repeated call gives the same answer and the file system
\* is as it was.
C17_DetectTotalOrderedIdempotent ==
  LET p == files[1]
      file == FileAt(fs0, p)
      isPdf == p.suffix \in {".pdf", ".PDF"}
  IN /\ fs = fs0
     /\ \A k \in 1..Len(results) :
          /\ results[k] \in {"PDF", "CBZ", "CBR", "None"}
          /\ isPdf => results[k] = "PDF"
          /\ (~isPdf /\ file.kind \in {"zip", "both"}) => results[k] = "CBZ"
          /\ (~isPdf /\ file.kind = "rar") => results[k] = "CBR"
          /\ (~isPdf /\ file.kind \in {"none", "empty", "junk", "locked", "pdf"}) => results[k] = "None"
          /\ results[k] = results[1]

\* C17 witness: detection was repeated on a file with the suffix .PDF that
\* is a valid archive of both kinds.
C17_Witness ==
  /\ Len(results) = MaxDetects
  /\ files[1].suffix = ".PDF"
  /\ FileAt(fs0, files[1]).kind = "both"
  /\ results[MaxDetects] = "PDF"

\* a / b rounded to the nearest integer, b # 0.
RoundDiv(a, b) ==
  LET n == IF b < 0 THEN 0 - a ELSE a
      d == IF b < 0 THEN 0 - b ELSE b
  IN IF n >= 0 THEN (2 * n + d) \div (2 * d) ELSE 0 - ((2 * (0 - n) + d) \div (2 * d))

\* C18: for every integer pair (current, total) the per-file callback
\* forwards p = clamp(round(100 * current / total), 0, 100) when total is
\* not 0 and p = 0 when total is 0, with 100 replaced by 99 unless the
\* callback is that of the last file.
C18_ForwardsRoundedClampedPercent ==
  \A k \in 1..Len(sunk) :
    LET p == IF sunk[k].tot # 0
             THEN Min(100, Max(0, RoundDiv(100 * sunk[k].cur, sunk[k].tot)))
             ELSE 0
    IN sunk[k].pct = (IF p = 100 /\ ~sunk[k].last THEN 99 ELSE p)

\* With the quotient truncated towards zero, as int() does, the same
\* statement holds for every pair with total >= 0 but the ones the float
\* product brings one short.
TruncatedPercentButFloatShort ==
  \A k \in 1..Len(sunk) :
    (sunk[k].tot >= 0 /\ <<sunk[k].cur, sunk[k].tot>> \notin FloatShort) =>
      LET q == IF sunk[k].tot = 0 THEN 0
               ELSE IF sunk[k].cur < 0 THEN 0
               ELSE (100 * sunk[k].cur) \div sunk[k].tot
          p == Min(100, Max(0, q))
      IN sunk[k].pct = (IF p = 100 /\ ~sunk[k].last THEN 99 ELSE p)

\* C19: every report of validate_comic_archive has isValid <=> imageCount
\* > 0; a report returned from an error path has isValid = false and the
\* zero-valued details, and carries the format detection found.
C19_ValidIffImagesAndErrorsZeroed ==
  \A k \in 1..Len(results) :
    /\ results[k].isValid <=> results[k].details.imageCount > 0
    /\ results[k].raised =>
         /\ ~results[k].isValid
         /\ results[k].details = ZeroDetails
         /\ results[k].format = detect_archive_format(fs0, files[1])

\* The same holds of every report of a ZIP or RAR archive, and of every
\* report on a file detection does not know.
ArchiveReportsValidIffImages ==
  \A k \in 1..Len(results) :
    results[k].format # "PDF" =>
      /\ results[k].isValid <=> results[k].details.imageCount > 0
      /\ results[k].raised => results[k].details = ZeroDetails

ExtractEnd(o) == IF o = "cb" THEN 60 ELSE 80
InSubRange(o, e) ==
  IF e.ph = "extract" THEN 10 <= e.pct /\ e.pct <= ExtractEnd(o)
  ELSE ZipStart(o) <= e.pct /\ e.pct <= ZipEnd(o)

\* C21: within one job the percentages forwarded by the extraction loop
\* and by the packer never decrease, extraction events lie between
\* extract_start and extract_end and packing events between create_start
\* and create_end.
C21_PhasedProgressMonotonicInRange ==
  \A k \in 1..Len(sunk) :
    sunk[k].ph \in {"extract", "pack"} =>
      /\ InSubRange(orch, sunk[k])
      /\ \A m \in 1..(k - 1) :
           (sunk[m].job = sunk[k].job /\ sunk[m].ph \in {"extract", "pack"}) => sunk[m].pct <= sunk[k].pct

\* C22: a job whose original could not be removed is reported as failed
\* with the removal error, and no result record has success together with
\* an error message.
C22_RemovalFailureReportedAsFailure ==
  \A i \in 1..Len(results) :
    /\ results[i].errorMessage = "UnlinkFailed" => ~results[i].success
    /\ results[i].success => results[i].errorMessage = ""

\* C23: a job that returns success never leaves an archive without pages
\* at its converted path; in particular a PDF that rasterizes to no page
\* does not become a CBZ reported as converted.
C23_NoSuccessWithEmptyOutput ==
  LET i == Len(results)
  IN (pc = "batch" /\ i >= 1 /\ results[i].success /\ Exists(fs, results[i].convertedPath)) =>
       FileAt(fs, results[i].convertedPath).pages # {}

\* The same for the PDF -> cbz jobs alone.
C23_PdfWithoutPagesFails ==
  LET i == Len(results)
  IN (pc = "batch" /\ i >= 1 /\ orch = "pdf" /\ Lower(target) = "cbz" /\ Len(jlog) = i /\ jlog[i].src = "PDF"
        /\ results[i].success /\ Exists(fs, results[i].convertedPath)) =>
       FileAt(fs, results[i].convertedPath).pages # {}

\* C24: a pipeline that finds its source gone, or no longer of the format
\* it expects, ends the job with an error naming that format, and makes no
\* temporary directory, no progress or status call and no write on the way.
C24_RecheckFailsBeforeAnyEffect ==
  [][(pc = "pipeline" /\ pc' # "pipeline"
        /\ (~Exists(fs, files[idx])
              \/ detect_archive_format(fs, files[idx]) # Expected(orch, target, srcFmt)))
       => /\ pc' = "batch"
          /\ results' = Append(results,
               Result(files[idx], conv, FALSE,
                      (IF Exists(fs, files[idx]) THEN "NotValidSource:" ELSE "SourceNotFound:")
                        \o Expected(orch, target, srcFmt)))
          /\ UNCHANGED <<fs, tmpDirs, tmpFiles, sunk, signals, lastPct>>
          /\ jlog'[idx].tmpMade = 0]_vars

\* C24 witness: a job ended at the re-check, once for a source that was
\* gone and once for one of another format.
C24_Witness ==
  /\ results # <<>>
  /\ results[Len(results)].errorMessage \in {"NotValidSource:CBR", "NotValidSource:PDF"}
  /\ jlog[Len(results)].gate
  /\ ~jlog[Len(results)].rechecked

C24_WitnessVanished ==
  /\ results # <<>>
  /\ results[Len(results)].errorMessage \in {"SourceNotFound:CBZ", "SourceNotFound:CBR"}
  /\ jlog[Len(results)].gate

\* C25: a packer called on a source that is missing or no directory raises
\* the precondition failure and has by then run no tool, made no progress
\* call and not touched the output path.
C25_PackersRejectBadSourceBeforeIO ==
  \A i \in 1..Len(results) :
    results[i].src # "dir" =>
      results[i].report = PackReport("SourceDirectoryMissing", 0, 0, FALSE)

\* The ZIP packer does.
ZipPackerRejectsBadSourceBeforeIO ==
  \A i \in 1..Len(results) :
    (results[i].src # "dir" /\ results[i].op = "zip") =>
      results[i].report = PackReport("SourceDirectoryMissing", 0, 0, FALSE)

\* C26: once the worker is set up the batch has one orchestrator, the PDF
\* orchestrator iff the target is pdf (in any letter case, the token being
\* case-insensitive) or some input path ends in .pdf, and it stays the
\* orchestrator of every job.
C26_OrchestratorChosenUpFront ==
  (pc \notin {"setup", "crashed"}) =>
    orch = (IF Lower(target) = "pdf" \/ \E i \in 1..Len(files) : Lower(files[i].suffix) = ".pdf"
            THEN "pdf" ELSE "cb")

\* The choice is made once: no step changes the orchestrator of a batch.
OrchestratorNeverChanges == [][orch # "none" => orch' = orch]_vars

\* With the token spelt in lower case the choice is the claimed one.
OrchestratorChosenForLowerToken ==
  (pc \notin {"setup", "crashed"} /\ target = Lower(target)) =>
    orch = (IF target = "pdf" \/ \E i \in 1..Len(files) : Lower(files[i].suffix) = ".pdf"
            THEN "pdf" ELSE "cb")

\* C27: at most one conversion worker runs at any time.
C27_AtMostOneWorkerRunning == Cardinality(Running) <= 1

\* The jobs of two batches do not interleave: once a later worker has run
\* a job, no earlier worker runs one.
JobsOfBatchesDoNotInterleave ==
  \A k \in 1..Len(sunk) : \A m \in 1..(k - 1) : sunk[m] <= sunk[k]

\* C28: when convert_file has just returned success, the converted path
\* holds a file.
C28_SuccessMeansConvertedFileThere ==
  LET i == Len(results)
  IN (pc = "batch" /\ i >= 1 /\ idx = i + 1 /\ results[i].success) =>
       Exists(fs, results[i].convertedPath)

\* It does whenever the converted path is not the path of the original.
SuccessMeansConvertedFileThereUnlessSamePath ==
  LET i == Len(results)
  IN (pc = "batch" /\ i >= 1 /\ idx = i + 1 /\ results[i].success
        /\ results[i].convertedPath # results[i].originalPath) =>
       Exists(fs, results[i].convertedPath)

\* C29: two jobs of a batch with different input paths that both succeed
\* have different converted paths, and no job writes the input path of
\* another job.
C29_SuccessfulJobsHaveOwnConvertedPath ==
  \A i, j \in 1..Len(results) :
    (i # j /\ results[i].originalPath # results[j].originalPath) =>
      /\ (results[i].success /\ results[j].success) =>
           results[i].convertedPath # results[j].convertedPath
      /\ (Len(jlog) >= i /\ jlog[i].wrote) => results[i].convertedPath # results[j].originalPath

\* A batch in which two different inputs were both reported converted to
\* the same path.
TwoSuccessesOnePath ==
  \E i, j \in 1..Len(results) :
    /\ i < j
    /\ results[i].originalPath # results[j].originalPath
    /\ results[i].success /\ results[j].success
    /\ results[i].convertedPath = results[j].convertedPath

\* C30: page k of the PDF is the image of the k-th entry of the archive in
\* sorted order of the entry names.
C30_PageKIsKthEntry ==
  \A i \in 1..Len(results) :
    \A k \in 1..Len(results[i].entries) :
      results[i].pages[k] = results[i].archive[results[i].entries[k]]

\* It is when no two entries share a base name.
PageKIsKthEntryForDistinctBaseNames ==
  \A i \in 1..Len(results) :
    (\A n, m \in DOMAIN results[i].archive : n.base = m.base => n = m) =>
      \A k \in 1..Len(results[i].entries) :
        results[i].pages[k] = results[i].archive[results[i].entries[k]]

====
